---- MODULE Spec2Model ----
(***************************************************************************)
(* YouTube-Metadata-Extractor: the playlist extractor                      *)
(* (js/youtube-extractor.js) and the document generator                    *)
(* (js/document-generator.js and its superseded variants).                 *)
(*                                                                         *)
(* One action is one run of JavaScript between two awaits: the code of an  *)
(* async function runs to its next await without interruption, so that is  *)
(* the grain at which calls on one instance interleave.                    *)
(***************************************************************************)
EXTENDS Integers, Sequences, FiniteSets, TLC

(* ------------------------------ bounds -------------------------------- *)

\* longest listing the API or the playlist page yields
MaxItems == 2

\* processPlaylist calls made on the one extractor instance
Calls == {1, 2}

\* identifiers a listing is drawn from: one of the demo table, one unknown
ListedIds == {"dQw4w9WgXcQ", "x1"}

\* API keys the caller may set ('' is no key)
Keys == {"", "k"}

RECURSIVE SeqsUpTo(_, _)
SeqsUpTo(S, n) ==
    IF n = 0 THEN {<<>>}
    ELSE LET shorter == SeqsUpTo(S, n - 1)
         IN  shorter \cup {Append(s, x) : s \in {t \in shorter : Len(t) = n - 1}, x \in S}

Listings == SeqsUpTo(ListedIds, MaxItems)

(* ------------------------ text and numbers ---------------------------- *)
\* A text is a sequence of one-character strings.

DigitChars == <<"0", "1", "2", "3", "4", "5", "6", "7", "8", "9">>

IsDigit(ch) == \E d \in 1..10 : DigitChars[d] = ch

DigitValue(ch) == (CHOOSE d \in 1..10 : DigitChars[d] = ch) - 1

\* Number.prototype.toString() of a non-negative integer
RECURSIVE toString(_)
toString(n) ==
    IF n < 10 THEN <<DigitChars[n + 1]>>
    ELSE toString(n \div 10) \o <<DigitChars[(n % 10) + 1]>>

\* String.prototype.padStart(2, '0')
padStart2(s) == IF Len(s) < 2 THEN <<"0">> \o s ELSE s

\* the value JavaScript calls NaN; every number of the model is >= 0
NaN == -1

\* parseInt(text, 10) of a text without sign or white space: the value of
\* the longest prefix of digits, NaN when there is none
RECURSIVE parseIntFrom(_, _, _)
parseIntFrom(s, k, acc) ==
    IF k > Len(s) \/ ~IsDigit(s[k]) THEN acc
    ELSE parseIntFrom(s, k + 1, 10 * acc + DigitValue(s[k]))

parseInt(s) == IF Len(s) = 0 \/ ~IsDigit(s[1]) THEN NaN ELSE parseIntFrom(s, 1, 0)

\* String.prototype.split(':')
RECURSIVE splitColon(_, _, _)
splitColon(s, k, cur) ==
    IF k > Len(s) THEN <<cur>>
    ELSE IF s[k] = ":" THEN <<cur>> \o splitColon(s, k + 1, <<>>)
    ELSE splitColon(s, k + 1, Append(cur, s[k]))

\* a + b and a * b with NaN absorbing
NumAdd(a, b) == IF a = NaN \/ b = NaN THEN NaN ELSE a + b
NumMul(a, b) == IF a = NaN \/ b = NaN THEN NaN ELSE a * b

\* x || dflt for a number x: 0 and NaN are falsy
NumOr(x, dflt) == IF x = 0 \/ x = NaN THEN dflt ELSE x

\* a formatDuration that drops the hours
formatDurationNoHours(seconds) ==
    LET minutes == (seconds % 3600) \div 60
        secs    == seconds % 60
    IN  toString(minutes) \o <<":">> \o padStart2(toString(secs))

formatDuration(seconds) ==
    LET hours   == seconds \div 3600
        minutes == (seconds % 3600) \div 60
        secs    == seconds % 60
    IN  IF hours > 0
        THEN toString(hours) \o <<":">> \o padStart2(toString(minutes))
                 \o <<":">> \o padStart2(toString(secs))
        ELSE toString(minutes) \o <<":">> \o padStart2(toString(secs))

parseDurationString(duration) ==
    LET texts == splitColon(duration, 1, <<>>)
        parts == [k \in 1..Len(texts) |-> parseInt(texts[k])]
    IN  IF Len(parts) = 3
        THEN NumAdd(NumAdd(NumMul(parts[1], 3600), NumMul(parts[2], 60)), parts[3])
        ELSE IF Len(parts) = 2
        THEN NumAdd(NumMul(parts[1], 60), parts[2])
        ELSE 0

\* what a helper's return value is when the call throws instead
Throws == -2

\* where the first "PT" of a text starts at or after k, 0 when nowhere
RECURSIVE indexOfPT(_, _)
indexOfPT(s, k) ==
    IF k + 1 > Len(s) THEN 0
    ELSE IF s[k] = "P" /\ s[k + 1] = "T" THEN k
    ELSE indexOfPT(s, k + 1)

\* the last position of the run of digits that starts at k; k - 1 when
\* there is no digit at k
RECURSIVE digitsEnd(_, _)
digitsEnd(s, k) ==
    IF k <= Len(s) /\ IsDigit(s[k]) THEN digitsEnd(s, k + 1) ELSE k - 1

\* one optional group (\d+X)? tried at position k: the text it captured
\* (empty when the group did not take part) and where the match goes on.
\* \d+ is greedy and a shorter run of digits is followed by a digit, never
\* by the unit, so backtracking changes nothing.
Group(s, k, unit) ==
    LET e == digitsEnd(s, k)
    IN  IF e >= k /\ e + 1 <= Len(s) /\ s[e + 1] = unit
        THEN [text |-> SubSeq(s, k, e + 1), next |-> e + 2]
        ELSE [text |-> <<>>, next |-> k]

\* duration.match(/PT(\d+H)?(\d+M)?(\d+S)?/): the pattern is not anchored,
\* so it matches at the first "PT" of the text and is null without one
DurationMatch(duration) ==
    LET at == indexOfPT(duration, 1)
        g1 == Group(duration, at + 2, "H")
        g2 == Group(duration, g1.next, "M")
        g3 == Group(duration, g2.next, "S")
    IN  IF at = 0
        THEN [found |-> FALSE, h |-> <<>>, m |-> <<>>, s |-> <<>>]
        ELSE [found |-> TRUE, h |-> g1.text, m |-> g2.text, s |-> g3.text]

\* (group && parseInt(group, 10)) || 0
GroupValue(group) == IF Len(group) = 0 THEN 0 ELSE NumOr(parseInt(group), 0)

\* match[1] of a null match is a TypeError
parseDuration(duration) ==
    LET match == DurationMatch(duration)
    IN  IF ~match.found THEN Throws
        ELSE GroupValue(match.h) * 3600 + GroupValue(match.m) * 60 + GroupValue(match.s)

\* String.prototype.trim(), the white space of the texts being the blank
RECURSIVE trimStart(_)
trimStart(s) == IF Len(s) > 0 /\ s[1] = " " THEN trimStart(Tail(s)) ELSE s

RECURSIVE trimEnd(_)
trimEnd(s) == IF Len(s) > 0 /\ s[Len(s)] = " " THEN trimEnd(SubSeq(s, 1, Len(s) - 1)) ELSE s

trim(s) == trimEnd(trimStart(s))

\* String.prototype.toUpperCase(), for the letters of the texts
upperChar(ch) ==
    CASE ch = "k" -> "K"
      [] ch = "m" -> "M"
      [] ch = "b" -> "B"
      [] ch = "x" -> "X"
      [] OTHER    -> ch

toUpperCase(s) == [k \in 1..Len(s) |-> upperChar(s[k])]

endsWith(s, ch) == Len(s) > 0 /\ s[Len(s)] = ch

\* str.slice(0, -1)
sliceLast(s) == SubSeq(s, 1, Len(s) - 1)

RECURSIVE pow10(_)
pow10(k) == IF k = 0 THEN 1 ELSE 10 * pow10(k - 1)

\* parseFloat of a text without sign, exponent or leading white space: the
\* longest prefix digits[.digits] or .digits, as the fraction n / d; NaN
\* when the text starts with neither
parseFloat(s) ==
    LET intEnd  == digitsEnd(s, 1)
        hasDot  == intEnd + 1 <= Len(s) /\ s[intEnd + 1] = "."
        fracEnd == IF hasDot THEN digitsEnd(s, intEnd + 2) ELSE intEnd + 1
        fracLen == fracEnd - (intEnd + 1)
        intVal  == IF intEnd >= 1 THEN parseIntFrom(s, 1, 0) ELSE 0
        fracVal == IF fracLen > 0 THEN parseIntFrom(s, intEnd + 2, 0) ELSE 0
    IN  IF intEnd = 0 /\ fracLen = 0
        THEN [n |-> NaN, d |-> 1]
        ELSE [n |-> intVal * pow10(fracLen) + fracVal, d |-> pow10(fracLen)]

\* Math.round(x * factor): NaN stays NaN, a half rounds up
roundTimes(x, factor) ==
    IF x.n = NaN THEN NaN ELSE (2 * x.n * factor + x.d) \div (2 * x.d)

\* str.replace(/\D/g, '')
digitsOnly(s) == SelectSeq(s, IsDigit)

parseCount(countStr) ==
    IF Len(countStr) = 0 THEN 0
    ELSE LET str == toUpperCase(trim(countStr))
         IN  IF endsWith(str, "K") THEN roundTimes(parseFloat(sliceLast(str)), 1000)
             ELSE IF endsWith(str, "M") THEN roundTimes(parseFloat(sliceLast(str)), 1000000)
             ELSE IF endsWith(str, "B") THEN roundTimes(parseFloat(sliceLast(str)), 1000000000)
             ELSE NumOr(parseInt(digitsOnly(str)), 0)

(* --------------------------- the sources ------------------------------ *)

getDemoVideoIds ==
    <<"dQw4w9WgXcQ", "jNQXAC9IVRw", "9bZkp7q19f0", "kJQP7kiw5Fk", "OPf0YbXqDm0">>

DemoTitle    == "demo"
Placeholder  == "Video do YouTube"

\* views and likes of the demo table are held in thousands
getDemoVideoData(videoId) ==
    CASE videoId = "dQw4w9WgXcQ" ->
            [title |-> DemoTitle, views |-> 1234567, likes |-> 12345,
             duration |-> <<"3", ":", "3", "3">>, durationSeconds |-> 213]
      [] videoId = "jNQXAC9IVRw" ->
            [title |-> DemoTitle, views |-> 248000, likes |-> 12000,
             duration |-> <<"0", ":", "1", "9">>, durationSeconds |-> 19]
      [] videoId = "9bZkp7q19f0" ->
            [title |-> DemoTitle, views |-> 4600000, likes |-> 24000,
             duration |-> <<"4", ":", "1", "3">>, durationSeconds |-> 253]
      [] videoId = "kJQP7kiw5Fk" ->
            [title |-> DemoTitle, views |-> 8100000, likes |-> 50000,
             duration |-> <<"4", ":", "4", "1">>, durationSeconds |-> 281]
      [] videoId = "OPf0YbXqDm0" ->
            [title |-> DemoTitle, views |-> 4800000, likes |-> 25000,
             duration |-> <<"4", ":", "3", "1">>, durationSeconds |-> 271]
      [] OTHER ->
            [title |-> DemoTitle, views |-> 5, likes |-> 5,
             duration |-> <<"3", ":", "3", "0">>, durationSeconds |-> 210]

\* the maxResults of the playlistItems request
maxResults == 50

\* the items of the answer to fetchPlaylistItems for a playlist: the first
\* page only, the request is sent once and nextPageToken is never read
fetchPlaylistItems(playlist) ==
    SubSeq(playlist, 1, IF Len(playlist) < maxResults THEN Len(playlist) ELSE maxResults)

\* what the API answers for a video: videos.list contentDetails and statistics
ApiVideo(videoId) ==
    IF videoId = "x1"
    THEN [title |-> "t-x1", iso |-> <<"P", "T", "1", "M", "5", "S">>,
          viewCount |-> 42, likeCount |-> 7]
    ELSE [title |-> "t-rick", iso |-> <<"P", "T", "1", "H", "2", "M", "3", "S">>,
          viewCount |-> 1200, likeCount |-> 0]

\* what the watch page shows when its elements are found; the text of
\* .ytp-time-duration is a clock on one page and bare seconds on the other
PageVideo(videoId) ==
    IF videoId = "x1"
    THEN [title |-> "page", views |-> 77, likes |-> 3, duration |-> <<"1", ":", "0", "5">>]
    ELSE [title |-> "page", views |-> 77, likes |-> 3, duration |-> <<"4", "5">>]

(* ------------------------------ state --------------------------------- *)

VARIABLES
    apiKey,          \* this.apiKey
    useApi,          \* this.useApi
    videos,          \* this.videos: the array it refers to
    screenshots,     \* this.screenshots: the array it refers to
    totalDuration,   \* this.totalDuration
    vidArr,          \* the arrays allocated for this.videos, by reference
    shotArr,         \* the arrays allocated for this.screenshots, by reference
    pc,              \* where each processPlaylist call is suspended
    usedApi,         \* the this.useApi each call read at line 25
    items,           \* items (API pass) or videoIds (scraping pass) of each call
    idx,             \* the loop variable i of each call
    det,             \* videoDetails of the item in hand
    progressLog,     \* the progress values each call passed to progressCallback
    events,          \* the objects each call passed to progressCallback
    result,          \* what each call returned
    fellBack,        \* the call ran the catch of line 28
    scrapeStarts,    \* processPlaylistWithScraping invocations of each call
    apiRequests,     \* fetch() calls to googleapis.com of each call
    listedEmpty,     \* a listing of the call yielded no identifier
    variant,         \* which DocumentGenerator class of the sources is loaded
    xlsx,            \* this.xlsx is set
    docx,            \* this.docx is set
    docxLoaded,      \* this.docxLoaded (the final class)
    libPc,           \* where loadLibraries is suspended
    docOp,           \* the generator method called last
    docIn,           \* the arguments of that call
    docOut,          \* what that call settled with
    fnName,          \* the helper under test
    fnArg,           \* its argument
    fnRet,           \* what it returned
    fnDone           \* it has been called

extractorVars == <<apiKey, useApi, videos, screenshots, totalDuration, vidArr, shotArr,
                   pc, usedApi, items, idx, det, progressLog, events, result, fellBack,
                   scrapeStarts, apiRequests, listedEmpty>>

generatorVars == <<variant, xlsx, docx, docxLoaded, libPc, docOp, docIn, docOut>>

helperVars == <<fnName, fnArg, fnRet, fnDone>>

vars == <<extractorVars, generatorVars, helperVars>>

instanceVars == <<apiKey, useApi, videos, screenshots, totalDuration, vidArr, shotArr>>

\* array references: 0 is the array the constructor made, c the one call c made
Refs == {0} \cup Calls

NoDetails == [title |-> "", views |-> 0, likes |-> 0, duration |-> <<>>, durationSeconds |-> 0,
              demo |-> FALSE]

NoResult == [videos |-> 0, screenshots |-> 0, totalDuration |-> 0]

ApiPcs    == {"api_list", "api_details", "api_stats", "api_capture"}
ScrapePcs == {"scr_load", "scr_details", "scr_capture"}

InFlight(c) == pc[c] \in ApiPcs \cup ScrapePcs

InitExtractor ==
    /\ apiKey = ""
    /\ useApi = FALSE
    /\ videos = 0
    /\ screenshots = 0
    /\ totalDuration = 0
    /\ vidArr = [r \in Refs |-> <<>>]
    /\ shotArr = [r \in Refs |-> <<>>]
    /\ pc = [c \in Calls |-> "idle"]
    /\ usedApi = [c \in Calls |-> FALSE]
    /\ items = [c \in Calls |-> <<>>]
    /\ idx = [c \in Calls |-> 0]
    /\ det = [c \in Calls |-> NoDetails]
    /\ progressLog = [c \in Calls |-> <<>>]
    /\ events = [c \in Calls |-> <<>>]
    /\ result = [c \in Calls |-> NoResult]
    /\ fellBack = [c \in Calls |-> FALSE]
    /\ scrapeStarts = [c \in Calls |-> 0]
    /\ apiRequests = [c \in Calls |-> 0]
    /\ listedEmpty = [c \in Calls |-> FALSE]

\* no helper is under test
InitNoHelper ==
    /\ fnName = "none"
    /\ fnArg = <<>>
    /\ fnRet = <<>>
    /\ fnDone = FALSE

(* --------------------------- the extractor ---------------------------- *)

\* a setApiKey that switches the API on whatever the key is
setApiKeyAlwaysOn(k) ==
    /\ apiKey' = k
    /\ useApi' = TRUE
    /\ UNCHANGED <<generatorVars, helperVars, videos, screenshots, totalDuration, vidArr, shotArr, pc,
                   usedApi, items, idx, det, progressLog, events, result, fellBack, scrapeStarts,
                   apiRequests, listedEmpty>>

setApiKey(k) ==
    /\ apiKey' = k
    /\ useApi' = (k # "")
    /\ UNCHANGED <<generatorVars, helperVars, videos, screenshots, totalDuration, vidArr, shotArr, pc, usedApi,
                   items, idx, det, progressLog, events, result, fellBack, scrapeStarts,
                   apiRequests, listedEmpty>>

\* progress of the per-item event: base + Math.floor((i / totalItems) * 80)
ItemProgress(base, i, totalItems) == base + ((i * 80) \div totalItems)

\* a push that puts the new element first (unshift)
PushFirst(arr, x) == <<x>> \o arr

\* Array.prototype.push
Push(arr, x) == Append(arr, x)

\* the object of a progressCallback call: phase stands for its status text
\* ("listing": Conectando / Iniciando / Analisando / Encontrados; "item":
\* Processando video i + 1 de n; "final": Finalizando / Processamento
\* concluido) and item for the i + 1 of the per-item text
Event(phase, progress, processed, total) ==
    [phase |-> phase, progress |-> progress, processed |-> processed, total |-> total,
     item |-> IF phase = "item" THEN processed + 1 ELSE 0]

\* the event at the head of iteration i of either loop
ItemEvent(base, i, totalItems) ==
    Event("item", ItemProgress(base, i, totalItems), i, totalItems)

\* a scraping pass whose wait for the playlist iframe has no timeout, on a
\* page whose load event never comes
EnterScrapingWithoutTimeout(c, log) ==
    /\ progressLog' = [progressLog EXCEPT ![c] = Push(log, 5)]
    /\ events' = [events EXCEPT ![c] = Push(@, Event("listing", 5, 0, 0))]
    /\ scrapeStarts' = [scrapeStarts EXCEPT ![c] = @ + 1]
    /\ pc' = [pc EXCEPT ![c] = "scr_wait"]

\* processPlaylistWithScraping up to its first await (lines 147-170): the
\* progress event 5, then the wait for the playlist iframe
EnterScraping(c, log) ==
    /\ progressLog' = [progressLog EXCEPT ![c] = Push(log, 5)]
    /\ events' = [events EXCEPT ![c] = Push(@, Event("listing", 5, 0, 0))]
    /\ scrapeStarts' = [scrapeStarts EXCEPT ![c] = @ + 1]
    /\ pc' = [pc EXCEPT ![c] = "scr_load"]

\* a processPlaylist that empties the arrays it has (this.videos.length = 0)
\* where the code makes new ones
processPlaylistClearsInPlace(c) ==
    /\ pc[c] = "idle"
    /\ UNCHANGED <<videos, screenshots>>
    /\ vidArr' = [vidArr EXCEPT ![videos] = <<>>]
    /\ shotArr' = [shotArr EXCEPT ![screenshots] = <<>>]
    /\ totalDuration' = 0
    /\ usedApi' = [usedApi EXCEPT ![c] = useApi]
    /\ IF useApi /\ apiKey # ""
       THEN /\ progressLog' = [progressLog EXCEPT ![c] = Push(@, 5)]
            /\ events' = [events EXCEPT ![c] = Push(@, Event("listing", 5, 0, 0))]
            /\ apiRequests' = [apiRequests EXCEPT ![c] = @ + 1]
            /\ pc' = [pc EXCEPT ![c] = "api_list"]
            /\ UNCHANGED <<scrapeStarts, fellBack>>
       ELSE /\ EnterScraping(c, progressLog[c])
            /\ fellBack' = [fellBack EXCEPT ![c] = useApi]
            /\ UNCHANGED apiRequests
    /\ UNCHANGED <<generatorVars, helperVars, apiKey, useApi, items, idx, det, result, listedEmpty>>

\* processPlaylist up to the first await of the pass it chooses
processPlaylist(c) ==
    /\ pc[c] = "idle"
    /\ videos' = c
    /\ screenshots' = c
    /\ vidArr' = [vidArr EXCEPT ![c] = <<>>]
    /\ shotArr' = [shotArr EXCEPT ![c] = <<>>]
    /\ totalDuration' = 0
    /\ usedApi' = [usedApi EXCEPT ![c] = useApi]
    /\ IF useApi /\ apiKey # ""
       THEN \* processPlaylistWithApi: event 5, then fetchPlaylistItems
            /\ progressLog' = [progressLog EXCEPT ![c] = Push(@, 5)]
            /\ events' = [events EXCEPT ![c] = Push(@, Event("listing", 5, 0, 0))]
            /\ apiRequests' = [apiRequests EXCEPT ![c] = @ + 1]
            /\ pc' = [pc EXCEPT ![c] = "api_list"]
            /\ UNCHANGED <<scrapeStarts, fellBack>>
       ELSE \* no key, or the throw of line 52 caught at line 28
            /\ EnterScraping(c, progressLog[c])
            /\ fellBack' = [fellBack EXCEPT ![c] = useApi]
            /\ UNCHANGED apiRequests
    /\ UNCHANGED <<generatorVars, helperVars, apiKey, useApi, items, idx, det, result, listedEmpty>>

\* the catch of line 28: any throw of the API pass starts the scraping pass
ApiThrows(c) ==
    /\ EnterScraping(c, progressLog[c])
    /\ fellBack' = [fellBack EXCEPT ![c] = TRUE]

\* a request of the API pass fails (network error, response not ok, no
\* items[0] in the answer), or progressCallback throws
ApiFail(c) ==
    /\ pc[c] \in {"api_list", "api_details", "api_stats"}
    /\ ApiThrows(c)
    /\ UNCHANGED <<generatorVars, helperVars, instanceVars, usedApi, items, idx, det, result, apiRequests, listedEmpty>>

\* fetchPlaylistItems answers with no items: the throw of line 69
ApiListEmpty(c) ==
    /\ pc[c] = "api_list"
    /\ ApiThrows(c)
    /\ listedEmpty' = [listedEmpty EXCEPT ![c] = TRUE]
    /\ UNCHANGED <<generatorVars, helperVars, instanceVars, usedApi, items, idx, det, result, apiRequests>>

\* fetchPlaylistItems answers with items: events 10 and the one of item 0,
\* then fetchVideoDetails
ApiListed(c, ids) ==
    /\ pc[c] = "api_list"
    /\ Len(ids) > 0
    /\ items' = [items EXCEPT ![c] = ids]
    /\ idx' = [idx EXCEPT ![c] = 0]
    /\ progressLog' = [progressLog EXCEPT ![c] =
                          Push(Push(@, 10), ItemProgress(10, 0, Len(ids)))]
    /\ events' = [events EXCEPT ![c] =
                     Push(Push(@, Event("listing", 10, 0, Len(ids))), ItemEvent(10, 0, Len(ids)))]
    /\ apiRequests' = [apiRequests EXCEPT ![c] = @ + 1]
    /\ pc' = [pc EXCEPT ![c] = "api_details"]
    /\ UNCHANGED <<generatorVars, helperVars, instanceVars, usedApi, det, result, fellBack, scrapeStarts, listedEmpty>>

\* fetchVideoDetails answers; fetchVideoStatistics is sent
ApiDetails(c) ==
    /\ pc[c] = "api_details"
    /\ apiRequests' = [apiRequests EXCEPT ![c] = @ + 1]
    /\ pc' = [pc EXCEPT ![c] = "api_stats"]
    /\ UNCHANGED <<generatorVars, helperVars, instanceVars, usedApi, items, idx, det, progressLog, events, result, fellBack,
                   scrapeStarts, listedEmpty>>

\* fetchVideoStatistics answers: lines 101-106, up to the wait for the
\* thumbnail inside captureVideoScreenshot
ApiStats(c) ==
    /\ pc[c] = "api_stats"
    /\ LET videoId  == items[c][idx[c] + 1]
           answer   == ApiVideo(videoId)
           duration == parseDuration(answer.iso)
       IN  det' = [det EXCEPT ![c] =
                      [title |-> answer.title,
                       views |-> answer.viewCount,
                       likes |-> answer.likeCount,
                       duration |-> formatDuration(duration),
                       durationSeconds |-> duration,
                       demo |-> FALSE]]
    /\ pc' = [pc EXCEPT ![c] = "api_capture"]
    /\ UNCHANGED <<generatorVars, helperVars, instanceVars, usedApi, items, idx, progressLog, events, result, fellBack,
                   scrapeStarts, apiRequests, listedEmpty>>

\* this.videos.find(v => v.videoId === videoId)?.field || dflt
FindOr(arr, videoId, field, dflt) ==
    IF \E k \in 1..Len(arr) : arr[k].videoId = videoId
    THEN LET k == CHOOSE j \in 1..Len(arr) :
                      /\ arr[j].videoId = videoId
                      /\ \A m \in 1..(j - 1) : arr[m].videoId # videoId
         IN  NumOr(arr[k][field], dflt)
    ELSE dflt

\* the image captureVideoScreenshotWithExpandedDescription returns
Screenshot(videoId, title) ==
    [videoId |-> videoId,
     title   |-> title,
     views   |-> FindOr(vidArr[videos], videoId, "views", 1000),
     likes   |-> FindOr(vidArr[videos], videoId, "likes", 100)]

\* the record pushed at lines 109-117 and 260-268; by and pass tell which
\* call and which pass pushed it, demo whether scrapeVideoDetails took its
\* values from the demo table (none of the three is a property of the record)
VideoRecord(c, pass, videoId, d) ==
    [videoId |-> videoId, title |-> d.title, duration |-> d.duration,
     views |-> d.views, likes |-> d.likes, durationSeconds |-> d.durationSeconds,
     by |-> c, pass |-> pass, demo |-> d.demo]

\* an item whose capture failed is skipped: no record, no image, no duration
AddVideoIfCaptured(c, pass, videoId, d, captured) ==
    /\ vidArr' = IF captured
                 THEN [vidArr EXCEPT ![videos] = Push(@, VideoRecord(c, pass, videoId, d))]
                 ELSE vidArr
    /\ shotArr' = IF captured
                  THEN [shotArr EXCEPT ![screenshots] = Push(@, Screenshot(videoId, d.title))]
                  ELSE shotArr
    /\ totalDuration' = IF captured THEN totalDuration + d.durationSeconds ELSE totalDuration

\* lines 108-125 and 259-276: the record, the image when there is one, the total
AddVideo(c, pass, videoId, d, captured) ==
    /\ vidArr' = [vidArr EXCEPT ![videos] = Push(@, VideoRecord(c, pass, videoId, d))]
    /\ shotArr' = IF captured
                  THEN [shotArr EXCEPT ![screenshots] = Push(@, Screenshot(videoId, d.title))]
                  ELSE shotArr
    /\ totalDuration' = totalDuration + d.durationSeconds

\* the return of lines 38-42
Return(c) ==
    /\ result' = [result EXCEPT ![c] =
                     [videos |-> videos, screenshots |-> screenshots,
                      totalDuration |-> totalDuration']]
    /\ pc' = [pc EXCEPT ![c] = "done"]

\* captureVideoScreenshot settles (captured = FALSE: it returned null): the
\* record is added, then either the next item's event and request or the
\* events 90 and 100 and the return
ApiCaptured(c, captured) ==
    /\ pc[c] = "api_capture"
    /\ AddVideo(c, "api", items[c][idx[c] + 1], det[c], captured)
    /\ IF idx[c] + 1 < Len(items[c])
       THEN /\ idx' = [idx EXCEPT ![c] = @ + 1]
            /\ progressLog' = [progressLog EXCEPT ![c] =
                                  Push(@, ItemProgress(10, idx[c] + 1, Len(items[c])))]
            /\ events' = [events EXCEPT ![c] = Push(@, ItemEvent(10, idx[c] + 1, Len(items[c])))]
            /\ apiRequests' = [apiRequests EXCEPT ![c] = @ + 1]
            /\ pc' = [pc EXCEPT ![c] = "api_details"]
            /\ UNCHANGED result
       ELSE /\ progressLog' = [progressLog EXCEPT ![c] = Push(Push(@, 90), 100)]
            /\ events' = [events EXCEPT ![c] =
                             Push(Push(@, Event("final", 90, Len(items[c]), Len(items[c]))),
                                  Event("final", 100, Len(items[c]), Len(items[c])))]
            /\ Return(c)
            /\ UNCHANGED <<idx, apiRequests>>
    /\ UNCHANGED <<generatorVars, helperVars, apiKey, useApi, videos, screenshots, usedApi, items, det, fellBack,
                   scrapeStarts, listedEmpty>>

\* a scraping pass that raises 'Nenhum video encontrado' when the page
\* yields no identifier, as it would without lines 215-217
ScrapeListedThrowsOnEmpty(c, ids) ==
    /\ pc[c] = "scr_load"
    /\ IF Len(ids) = 0
       THEN /\ progressLog' = [progressLog EXCEPT ![c] = Push(@, 10)]
            /\ events' = [events EXCEPT ![c] = Push(@, Event("listing", 10, 0, 0))]
            /\ pc' = [pc EXCEPT ![c] = "rejected"]
            /\ UNCHANGED <<items, idx>>
       ELSE /\ items' = [items EXCEPT ![c] = ids]
            /\ progressLog' = [progressLog EXCEPT ![c] =
                   Push(Push(Push(@, 10), 15), ItemProgress(15, 0, Len(ids)))]
            /\ events' = [events EXCEPT ![c] =
                   Push(Push(Push(@, Event("listing", 10, 0, 0)),
                             Event("listing", 15, 0, Len(ids))),
                        ItemEvent(15, 0, Len(ids)))]
            /\ idx' = [idx EXCEPT ![c] = 0]
            /\ pc' = [pc EXCEPT ![c] = "scr_details"]
    /\ listedEmpty' = [listedEmpty EXCEPT ![c] = @ \/ Len(ids) = 0]
    /\ UNCHANGED <<generatorVars, helperVars, instanceVars, usedApi, det, result, fellBack, scrapeStarts, apiRequests>>

\* the playlist iframe loaded or timed out: ids is what lines 180-212 extract
\* (none when nothing matched or the extraction threw); lines 172-250 up to
\* the wait for the first watch page
ScrapeListed(c, ids) ==
    /\ pc[c] = "scr_load"
    /\ LET videoIds == IF Len(ids) = 0 THEN getDemoVideoIds ELSE ids
       IN  /\ items' = [items EXCEPT ![c] = videoIds]
           /\ progressLog' = [progressLog EXCEPT ![c] =
                  Push(Push(Push(@, 10), 15), ItemProgress(15, 0, Len(videoIds)))]
           /\ events' = [events EXCEPT ![c] =
                  Push(Push(Push(@, Event("listing", 10, 0, 0)),
                            Event("listing", 15, 0, Len(videoIds))),
                       ItemEvent(15, 0, Len(videoIds)))]
    /\ listedEmpty' = [listedEmpty EXCEPT ![c] = @ \/ Len(ids) = 0]
    /\ idx' = [idx EXCEPT ![c] = 0]
    /\ pc' = [pc EXCEPT ![c] = "scr_details"]
    /\ UNCHANGED <<generatorVars, helperVars, instanceVars, usedApi, det, result, fellBack, scrapeStarts, apiRequests>>

\* scrapeVideoDetails: found tells whether the page's elements were read
scrapeVideoDetails(videoId, found) ==
    LET page == PageVideo(videoId)
        title == IF found THEN page.title ELSE Placeholder
        demoData == getDemoVideoData(videoId)
    IN  IF title = Placeholder
        THEN [title |-> demoData.title, views |-> demoData.views, likes |-> demoData.likes,
              duration |-> demoData.duration,
              durationSeconds |-> demoData.durationSeconds,
              demo |-> TRUE]
        ELSE [title |-> title, views |-> page.views, likes |-> page.likes,
              duration |-> page.duration,
              durationSeconds |-> parseDurationString(page.duration),
              demo |-> FALSE]

\* the watch page loaded or timed out: lines 250-257 up to the wait for the
\* thumbnail
ScrapeDetails(c, found) ==
    /\ pc[c] = "scr_details"
    /\ LET videoDetails == scrapeVideoDetails(items[c][idx[c] + 1], found)
       IN  det' = [det EXCEPT ![c] =
                      [videoDetails EXCEPT
                          !.durationSeconds = NumOr(videoDetails.durationSeconds, 0),
                          !.duration = IF Len(videoDetails.duration) = 0
                                       THEN <<"0", ":", "0", "0">>
                                       ELSE videoDetails.duration]]
    /\ pc' = [pc EXCEPT ![c] = "scr_capture"]
    /\ UNCHANGED <<generatorVars, helperVars, instanceVars, usedApi, items, idx, progressLog, events, result, fellBack,
                   scrapeStarts, apiRequests, listedEmpty>>

\* the capture settles in the scraping pass: lines 259-293
ScrapeCaptured(c, captured) ==
    /\ pc[c] = "scr_capture"
    /\ AddVideo(c, "scrape", items[c][idx[c] + 1], det[c], captured)
    /\ IF idx[c] + 1 < Len(items[c])
       THEN /\ idx' = [idx EXCEPT ![c] = @ + 1]
            /\ progressLog' = [progressLog EXCEPT ![c] =
                                  Push(@, ItemProgress(15, idx[c] + 1, Len(items[c])))]
            /\ events' = [events EXCEPT ![c] = Push(@, ItemEvent(15, idx[c] + 1, Len(items[c])))]
            /\ pc' = [pc EXCEPT ![c] = "scr_details"]
            /\ UNCHANGED result
       ELSE /\ progressLog' = [progressLog EXCEPT ![c] = Push(Push(@, 95), 100)]
            /\ events' = [events EXCEPT ![c] =
                             Push(Push(@, Event("final", 95, Len(items[c]), Len(items[c]))),
                                  Event("final", 100, Len(items[c]), Len(items[c])))]
            /\ Return(c)
            /\ UNCHANGED idx
    /\ UNCHANGED <<generatorVars, helperVars, apiKey, useApi, videos, screenshots, usedApi, items, det, fellBack,
                   scrapeStarts, apiRequests, listedEmpty>>

\* a failure of the scraping pass that starts the pass once more
ScrapeFailRestarts(c) ==
    /\ pc[c] \in {"scr_load", "scr_details"}
    /\ IF scrapeStarts[c] < 2
       THEN /\ progressLog' = [progressLog EXCEPT ![c] = Append(@, 5)]
            /\ events' = [events EXCEPT ![c] = Append(@, Event("listing", 5, 0, 0))]
            /\ scrapeStarts' = [scrapeStarts EXCEPT ![c] = @ + 1]
            /\ pc' = [pc EXCEPT ![c] = "scr_load"]
       ELSE /\ pc' = [pc EXCEPT ![c] = "rejected"]
            /\ UNCHANGED <<progressLog, events, scrapeStarts>>
    /\ UNCHANGED <<generatorVars, helperVars, instanceVars, usedApi, items, idx, det, result, fellBack,
                   apiRequests, listedEmpty>>

\* a statement of the scraping pass throws (a DOM call, progressCallback):
\* the catch of line 294 rethrows, the catch of line 43 rethrows. The capture
\* catches its own exceptions, so nothing throws while it is awaited; a throw
\* of the statements after it is a throw at the next wait.
ScrapeFail(c) ==
    /\ pc[c] \in {"scr_load", "scr_details"}
    /\ pc' = [pc EXCEPT ![c] = "rejected"]
    /\ UNCHANGED <<generatorVars, helperVars, instanceVars, usedApi, items, idx, det, progressLog, events, result, fellBack,
                   scrapeStarts, apiRequests, listedEmpty>>

(* ------------------------ the document generator ---------------------- *)

\* longest record list handed to the generator
MaxDocVideos == 2

\* the DocumentGenerator classes of the sources
Variants == {"v1", "v2", "v3", "v4", "final", "p1", "p3", "p4a", "p4b"}

DocIds == {"x1", "x2"}

DocRecord(videoId) ==
    [videoId |-> videoId, title |-> "t", duration |-> formatDuration(65),
     views |-> 42, likes |-> 7, durationSeconds |-> 65]

DocVideoLists ==
    {[k \in 1..Len(ids) |-> DocRecord(ids[k])] : ids \in SeqsUpTo(DocIds, MaxDocVideos)}

\* the first n images of a record list
ImagesOf(vs, n) == [k \in 1..n |-> [videoId |-> vs[k].videoId, title |-> vs[k].title]]

\* what the docx encoder does once it is there
Encoders == {"ok", "throws_building", "throws_packing"}

\* the arguments of a call: given is FALSE when screenshots is not supplied,
\* else screenshots holds the images of the first n records
DocInputs ==
    UNION {{[videos |-> vs, given |-> (n >= 0),
             screenshots |-> ImagesOf(vs, IF n >= 0 THEN n ELSE 0), encoder |-> e] :
               n \in (-1)..Len(vs), e \in Encoders} : vs \in DocVideoLists}

DocxArtifact ==
    [kind |-> "artifact", error |-> "",
     type |-> "application/vnd.openxmlformats-officedocument.wordprocessingml.document",
     filename |-> "comprovacao_videos.docx"]

HtmlArtifact ==
    [kind |-> "artifact", error |-> "",
     type |-> "text/html;charset=utf-8;", filename |-> "comprovacao_videos.html"]

MswordArtifact ==
    [kind |-> "artifact", error |-> "",
     type |-> "application/msword", filename |-> "comprovacao_videos.doc"]

\* a throw: of the 'Nenhum dado' error, or of anything else
Thrown(error) == [kind |-> "thrown", error |-> error, type |-> "", filename |-> ""]

NoData == Thrown("no data")

NoCall == [kind |-> "none", error |-> "", type |-> "", filename |-> ""]

IsThrown(r) == r.kind = "thrown"

\* the guard of the classes that take screenshots
NothingToRender(in) ==
    Len(in.videos) = 0 \/ ~in.given \/ Len(in.screenshots) = 0

\* generateHtmlDocument, class by class
generateHtmlDocumentV1(in) ==
    IF Len(in.videos) > 0 /\ ~in.given THEN Thrown("TypeError") ELSE HtmlArtifact

generateHtmlDocumentV2(in) ==
    IF NothingToRender(in) THEN NoData ELSE HtmlArtifact

generateHtmlDocumentThumb(in) == HtmlArtifact

generateHtmlDocumentFinal(in) ==
    IF Len(in.videos) > 0 /\ (~in.given \/ Len(in.screenshots) < Len(in.videos))
    THEN Thrown("TypeError")
    ELSE HtmlArtifact

\* the docx branch: the document when the encoder works, else what the
\* class does with the encoder's throw
Encoded(in, onThrow) == IF in.encoder = "ok" THEN DocxArtifact ELSE onThrow

\* generateWordDocument, class by class; a "thrown" result is a rejection
generateWordDocumentV1(in, hasDocx) ==
    IF NothingToRender(in) THEN NoData
    ELSE IF ~hasDocx THEN generateHtmlDocumentV1(in)
    ELSE Encoded(in, generateHtmlDocumentV1(in))

generateWordDocumentV2(in, hasDocx) ==
    IF NothingToRender(in) THEN NoData
    ELSE IF ~hasDocx THEN generateHtmlDocumentV2(in)
    ELSE Encoded(in, generateHtmlDocumentV2(in))

generateWordDocumentV3(in, hasDocx) ==
    IF Len(in.videos) = 0 THEN NoData
    ELSE IF ~hasDocx THEN generateHtmlDocumentThumb(in)
    ELSE Encoded(in, generateHtmlDocumentThumb(in))

generateWordDocumentV4(in, hasDocx) ==
    IF Len(in.videos) = 0 THEN NoData
    ELSE IF ~hasDocx THEN generateHtmlDocumentThumb(in)
    ELSE Encoded(in, Thrown("encoder"))

generateWordDocumentFinal(in, loaded) ==
    IF NothingToRender(in) THEN NoData
    ELSE IF ~loaded THEN generateHtmlDocumentFinal(in)
    ELSE Encoded(in, Thrown("encoder"))

generateWordDocumentP1(in, hasDocx) ==
    IF ~hasDocx THEN Thrown("TypeError")
    ELSE Encoded(in, Thrown("encoder"))

generateWordDocumentP3(in, hasDocx) ==
    IF Len(in.videos) = 0 THEN generateHtmlDocumentThumb(in)
    ELSE IF ~hasDocx THEN generateHtmlDocumentThumb(in)
    ELSE Encoded(in, generateHtmlDocumentThumb(in))

generateWordDocumentP4a(in, hasDocx) ==
    IF ~hasDocx THEN generateHtmlDocumentThumb(in)
    ELSE Encoded(in, Thrown("encoder"))

generateWordDocumentP4b(in) ==
    IF NothingToRender(in) THEN NoData
    ELSE IF IsThrown(generateHtmlDocumentFinal(in)) THEN generateHtmlDocumentFinal(in)
    ELSE MswordArtifact

WordDocument(v, in, hasDocx, loaded) ==
    CASE v = "v1"    -> generateWordDocumentV1(in, hasDocx)
      [] v = "v2"    -> generateWordDocumentV2(in, hasDocx)
      [] v = "v3"    -> generateWordDocumentV3(in, hasDocx)
      [] v = "v4"    -> generateWordDocumentV4(in, hasDocx)
      [] v = "final" -> generateWordDocumentFinal(in, loaded)
      [] v = "p1"    -> generateWordDocumentP1(in, hasDocx)
      [] v = "p3"    -> generateWordDocumentP3(in, hasDocx)
      [] v = "p4a"   -> generateWordDocumentP4a(in, hasDocx)
      [] v = "p4b"   -> generateWordDocumentP4b(in)

HtmlDocument(v, in) ==
    CASE v = "v1" -> generateHtmlDocumentV1(in)
      [] v = "v2" -> generateHtmlDocumentV2(in)
      [] v \in {"v3", "v4", "p1", "p3", "p4a"} -> generateHtmlDocumentThumb(in)
      [] v \in {"final", "p4b"} -> generateHtmlDocumentFinal(in)

XlsxArtifact ==
    [kind |-> "artifact", error |-> "",
     type |-> "application/vnd.openxmlformats-officedocument.spreadsheetml.sheet",
     filename |-> "playlist_data.xlsx"]

\* what generateCSV returns
CsvArtifact ==
    [kind |-> "artifact", error |-> "",
     type |-> "text/csv;charset=utf-8;", filename |-> "playlist_data.csv"]

\* the SheetJS branch: the spreadsheet when the encoder works, else what the
\* class does with the encoder's throw
Sheet(in, onThrow) == IF in.encoder = "ok" THEN XlsxArtifact ELSE onThrow

\* generateExcel, class by class. The first, second, third and final classes
\* and the html-as-doc class of part_004 guard the empty list and catch
\* everything else into generateCSV (the first two also test this.xlsx; in
\* the others a null this.xlsx is a TypeError that the catch takes).
generateExcelV1(in, hasXlsx) ==
    IF Len(in.videos) = 0 THEN NoData
    ELSE IF ~hasXlsx THEN CsvArtifact
    ELSE Sheet(in, CsvArtifact)

\* the fourth class, part_003 and the first class of part_004: the guard,
\* then the encoder with no try around it
generateExcelV4(in, hasXlsx) ==
    IF Len(in.videos) = 0 THEN NoData
    ELSE IF ~hasXlsx THEN Thrown("TypeError")
    ELSE Sheet(in, Thrown("encoder"))

\* part_001: no guard and no try
generateExcelP1(in, hasXlsx) ==
    IF ~hasXlsx THEN Thrown("TypeError")
    ELSE Sheet(in, Thrown("encoder"))

ExcelDocument(v, in, hasXlsx) ==
    CASE v \in {"v1", "v2", "v3", "final", "p4b"} -> generateExcelV1(in, hasXlsx)
      [] v \in {"v4", "p3", "p4a"} -> generateExcelV4(in, hasXlsx)
      [] v = "p1" -> generateExcelP1(in, hasXlsx)

NoInput == [videos |-> <<>>, given |-> FALSE, screenshots |-> <<>>, encoder |-> "ok"]

\* the constructor: the fields are null and loadLibraries has started
InitGenerator ==
    /\ xlsx = FALSE
    /\ docx = FALSE
    /\ docxLoaded = FALSE
    /\ libPc = "xlsx"
    /\ docOp = "none"
    /\ docIn = NoInput
    /\ docOut = NoCall

\* loadLibraries: the SheetJS script loads, or fails and ends loadLibraries
LoadXlsx(ok) ==
    /\ libPc = "xlsx"
    /\ xlsx' = ok
    /\ libPc' = IF ok THEN "docx" ELSE "end"
    /\ UNCHANGED <<extractorVars, helperVars, variant, docx, docxLoaded, docOp, docIn, docOut>>

\* loadLibraries: the docx script loads (usable tells whether window.docx is
\* there, for the final class with Packer.toBlob), or fails
LoadDocx(ok, usable) ==
    /\ libPc = "docx"
    /\ docx' = (ok /\ usable)
    /\ docxLoaded' = (variant = "final" /\ ok /\ usable)
    /\ libPc' = "end"
    /\ UNCHANGED <<extractorVars, helperVars, variant, xlsx, docOp, docIn, docOut>>

\* a call of generateWordDocument, from its entry to its settling
generateWordDocument(in) ==
    /\ docOp' = "generateWordDocument"
    /\ docIn' = in
    /\ docOut' = WordDocument(variant, in, docx, docxLoaded)
    /\ UNCHANGED <<extractorVars, helperVars, variant, xlsx, docx, docxLoaded, libPc>>

(* ------------------------------ generateCSV --------------------------- *)
\* The CSV text is a sequence whose elements are the double quote, the comma,
\* the line break, and runs of characters that hold none of the three (a
\* header name, the URL prefix, an identifier, a date), each run one element.

Quote   == "\""
Comma   == ","
NewLine == "\n"

WatchUrl == "https://www.youtube.com/watch?v="

\* the column names of line 88 (the second without its diacritics)
CsvHeader ==
    <<"Nome do Episodio", "Duracao", "Views", "Likes", "Link", "Data de Publicacao">>

\* title.replace(/"/g, '""')
RECURSIVE escapeQuotes(_)
escapeQuotes(s) ==
    IF Len(s) = 0 THEN <<>>
    ELSE (IF Head(s) = Quote THEN <<Quote, Quote>> ELSE <<Head(s)>>) \o escapeQuotes(Tail(s))

\* new Date(publishedDate).toLocaleDateString(): a run without quote, comma
\* or line break
toLocaleDateString(publishedDate) == <<publishedDate>>

\* row.join(',') + '\n' of lines 90-98
CsvRow(video) ==
    <<Quote>> \o escapeQuotes(video.title) \o <<Quote, Comma>>
        \o video.duration \o <<Comma>>
        \o toString(video.views) \o <<Comma>>
        \o toString(video.likes) \o <<Comma>>
        \o <<Quote, WatchUrl, video.videoId, Quote, Comma>>
        \o toLocaleDateString(video.publishedDate) \o <<NewLine>>

RECURSIVE CsvRows(_)
CsvRows(vs) ==
    IF Len(vs) = 0 THEN <<>> ELSE CsvRow(Head(vs)) \o CsvRows(Tail(vs))

\* the text generateCSV puts in the blob
generateCSV(vs) ==
    <<CsvHeader[1], Comma, CsvHeader[2], Comma, CsvHeader[3], Comma, CsvHeader[4], Comma,
      CsvHeader[5], Comma, CsvHeader[6], NewLine>> \o CsvRows(vs)

\* a reader of CSV text by the usual rules (RFC 4180): fields are separated
\* by commas and rows by line breaks; a field that starts with a quote runs
\* to its closing quote, two quotes inside it standing for one. at tells where
\* the reader is: "row" (a row starts), "field" (a field starts), "plain",
\* "quoted", "closing" (a quote was read inside a quoted field).
RECURSIVE readCsvFrom(_, _, _, _, _, _)
readCsvFrom(s, k, rows, row, field, at) ==
    IF k > Len(s)
    THEN IF at = "row" THEN rows ELSE Append(rows, Append(row, field))
    ELSE LET ch == s[k]
         IN  IF at = "quoted"
             THEN IF ch = Quote
                  THEN readCsvFrom(s, k + 1, rows, row, field, "closing")
                  ELSE readCsvFrom(s, k + 1, rows, row, Append(field, ch), "quoted")
             ELSE IF ch = Comma
             THEN readCsvFrom(s, k + 1, rows, Append(row, field), <<>>, "field")
             ELSE IF ch = NewLine
             THEN readCsvFrom(s, k + 1, Append(rows, Append(row, field)), <<>>, <<>>, "row")
             ELSE IF ch = Quote /\ at \in {"row", "field"}
             THEN readCsvFrom(s, k + 1, rows, row, field, "quoted")
             ELSE IF ch = Quote /\ at = "closing"
             THEN readCsvFrom(s, k + 1, rows, row, Append(field, Quote), "quoted")
             ELSE readCsvFrom(s, k + 1, rows, row, Append(field, ch), "plain")

readCsv(s) == readCsvFrom(s, 1, <<>>, <<>>, <<>>, "row")

\* a call of generateHtmlDocument
generateHtmlDocument(in) ==
    /\ docOp' = "generateHtmlDocument"
    /\ docIn' = in
    /\ docOut' = HtmlDocument(variant, in)
    /\ UNCHANGED <<extractorVars, helperVars, variant, xlsx, docx, docxLoaded, libPc>>

\* a call of generateExcel; the encoder of the input is SheetJS here
generateExcel(in) ==
    /\ docOp' = "generateExcel"
    /\ docIn' = in
    /\ docOut' = ExcelDocument(variant, in, xlsx)
    /\ UNCHANGED <<extractorVars, helperVars, variant, xlsx, docx, docxLoaded, libPc>>

\* one continuation of call c; LA are the playlists the API may be asked
\* about and LS the listings the playlist page may yield
Step(c, LA, LS) ==
    \/ ApiFail(c)
    \/ ApiListEmpty(c)
    \/ \E playlist \in LA : ApiListed(c, fetchPlaylistItems(playlist))
    \/ ApiDetails(c)
    \/ ApiStats(c)
    \/ \E captured \in BOOLEAN : ApiCaptured(c, captured)
    \/ \E ids \in LS : ScrapeListed(c, ids)
    \/ \E found \in BOOLEAN : ScrapeDetails(c, found)
    \/ \E captured \in BOOLEAN : ScrapeCaptured(c, captured)
    \/ ScrapeFail(c)

Quiet == \A c \in Calls : ~InFlight(c)

Fresh == \A c \in Calls : pc[c] = "idle"

\* one run, as app.js makes it: setApiKey, then processPlaylist
Next ==
    \/ \E k \in Keys : Quiet /\ setApiKey(k)
    \/ Fresh /\ processPlaylist(1)
    \/ Step(1, Listings, Listings)

Init == InitExtractor /\ InitGenerator /\ InitNoHelper /\ variant = "final"

Spec == Init /\ [][Next]_vars

\* every wait of a call in flight ends: a fetch settles, an iframe loads or
\* its timer of 10 s fires, a thumbnail loads or fails
SpecLive == Init /\ [][Next]_vars /\ WF_vars(Step(1, Listings, Listings))

\* the listings of the runs that share the instance
ConcApiListings == {<<"dQw4w9WgXcQ", "x1">>}
ConcPageListings == {<<"x1">>}

\* any caller of the instance: a second processPlaylist may start while the
\* first is in flight, or after it
NextConc ==
    \/ \E k \in Keys : setApiKey(k)
    \/ \E c \in Calls : (\A d \in Calls : d < c => pc[d] # "idle") /\ processPlaylist(c)
    \/ \E c \in Calls : Step(c, ConcApiListings, ConcPageListings)

SpecConc == Init /\ [][NextConc]_vars

\* a caller that waits for one call to settle before it makes the next
NextSeq ==
    \/ \E k \in Keys : Quiet /\ setApiKey(k)
    \/ \E c \in Calls : Quiet /\ (\A d \in Calls : d < c => pc[d] # "idle") /\ processPlaylist(c)
    \/ \E c \in Calls : Step(c, ConcApiListings, ConcPageListings)

SpecSeq == Init /\ [][NextSeq]_vars

\* the generator alone: the libraries load while the caller asks for documents
InitDoc == InitExtractor /\ InitGenerator /\ InitNoHelper /\ variant \in Variants

NextDoc ==
    \/ \E ok \in BOOLEAN : LoadXlsx(ok)
    \/ \E ok \in BOOLEAN, usable \in BOOLEAN : LoadDocx(ok, usable)
    \/ \E in \in DocInputs : generateWordDocument(in)
    \/ \E in \in DocInputs : generateHtmlDocument(in)
    \/ \E in \in DocInputs : generateExcel(in)

SpecDoc == InitDoc /\ [][NextDoc]_vars

(* ------------------------- the helpers on their own ------------------- *)

\* largest number of seconds formatted
MaxSeconds == 3700

\* longest text handed to parseCount
MaxCountLen == 3

\* longest text handed to parseDurationString
MaxClockLen == 5

\* longest text handed to parseDuration, besides the well-formed durations
MaxIsoLen == 4

\* longest playlist the API is asked about
MaxPlaylistLen == 51

\* longest title of a record written as CSV
MaxTitleLen == 2

\* longest record list written as CSV
MaxCsvRows == 2

CountChars == {"1", "5", ".", "K", "k", "m", "x", " "}
CountTexts == SeqsUpTo(CountChars, MaxCountLen)

ClockChars == {"1", "5", ":", "x"}
ClockTexts == SeqsUpTo(ClockChars, MaxClockLen)

\* the durations PT#H#M#S with every subset of the components
IsoNumbers == {<<>>, <<"1">>, <<"2">>, <<"3">>, <<"4", "5">>}
IsoPart(number, unit) == IF Len(number) = 0 THEN <<>> ELSE Append(number, unit)
IsoForms ==
    {<<"P", "T">> \o IsoPart(h, "H") \o IsoPart(m, "M") \o IsoPart(sec, "S") :
        h \in IsoNumbers, m \in IsoNumbers, sec \in IsoNumbers}

IsoChars == {"P", "T", "5", "S", "x"}
IsoTexts == IsoForms \cup SeqsUpTo(IsoChars, MaxIsoLen)

TitleChars == {"a", Quote, Comma, NewLine}
CsvTitles == SeqsUpTo(TitleChars, MaxTitleLen)

\* what the duration of a record may hold: formatDuration output, or the
\* text of the page's .ytp-time-duration element as it is
CsvDurations == {<<"3", ":", "3", "3">>, <<"1", ",", "0", "5">>}

CsvRecords ==
    {[videoId |-> "x1", title |-> t, duration |-> d, views |-> 42, likes |-> 7,
      publishedDate |-> "2024-01-02"] : t \in CsvTitles, d \in CsvDurations}

CsvVideoLists == SeqsUpTo(CsvRecords, MaxCsvRows)

\* the playlists of each length, their videos numbered from 1
Playlists == {[k \in 1..n |-> k] : n \in 0..MaxPlaylistLen}

InitHelper ==
    /\ fnDone = FALSE
    /\ fnRet = <<>>
    /\ \/ fnName = "formatDuration" /\ fnArg \in 0..MaxSeconds
       \/ fnName = "parseDurationString" /\ fnArg \in ClockTexts
       \/ fnName = "parseDuration" /\ fnArg \in IsoTexts
       \/ fnName = "parseCount" /\ fnArg \in CountTexts
       \/ fnName = "generateCSV" /\ fnArg \in CsvVideoLists
       \/ fnName = "fetchPlaylistItems" /\ fnArg \in Playlists

Returns(name, value) ==
    /\ fnName = name
    /\ ~fnDone
    /\ fnRet' = value
    /\ fnDone' = TRUE
    /\ UNCHANGED <<extractorVars, generatorVars, fnName, fnArg>>

CallFormatDuration == Returns("formatDuration", formatDuration(fnArg))

CallParseDurationString == Returns("parseDurationString", parseDurationString(fnArg))

CallParseDuration == Returns("parseDuration", parseDuration(fnArg))

CallParseCount == Returns("parseCount", parseCount(fnArg))

CallGenerateCSV == Returns("generateCSV", generateCSV(fnArg))

CallFetchPlaylistItems == Returns("fetchPlaylistItems", fetchPlaylistItems(fnArg))

InitFn == InitExtractor /\ InitGenerator /\ variant = "final" /\ InitHelper

NextFn ==
    \/ CallFormatDuration
    \/ CallParseDurationString
    \/ CallParseDuration
    \/ CallParseCount
    \/ CallGenerateCSV
    \/ CallFetchPlaylistItems

SpecFn == InitFn /\ [][NextFn]_vars

(* ------------------------------ properties ---------------------------- *)

Done(c) == pc[c] = "done"

\* the arrays a call's result refers to, as they are now
ResultVideos(c) == vidArr[result[c].videos]
ResultScreenshots(c) == shotArr[result[c].screenshots]

Nondecreasing(log) == \A k \in 1..(Len(log) - 1) : log[k] <= log[k + 1]

\* C1: when the API pass failed and the call fell back, the returned videos
\* are the records of the scraping pass only, as many as that pass listed.
C1_FallbackKeepsScrapingOnly ==
    \A c \in Calls :
        (Done(c) /\ fellBack[c]) =>
            /\ Len(ResultVideos(c)) = Len(items[c])
            /\ \A k \in 1..Len(ResultVideos(c)) : ResultVideos(c)[k].pass = "scrape"

\* C2: the progress values of a call that resolved never decrease and end
\* at 100, fallback included.
C2_ProgressNondecreasing ==
    \A c \in Calls :
        Done(c) =>
            /\ Nondecreasing(progressLog[c])
            /\ progressLog[c][Len(progressLog[c])] = 100

\* C3: a call that resolved without falling back returns one record per
\* listed identifier, in the order of the listing.
C3_OrderPreserved ==
    \A c \in Calls :
        (Done(c) /\ ~fellBack[c]) =>
            /\ Len(ResultVideos(c)) = Len(items[c])
            /\ \A k \in 1..Len(items[c]) : ResultVideos(c)[k].videoId = items[c][k]

\* an API run over two different videos has resolved
C3_Witness ==
    /\ Done(1) /\ ~fellBack[1] /\ usedApi[1]
    /\ Len(items[1]) = 2 /\ items[1][1] # items[1][2]

\* C4: a result has one image slot per record, and the image at position k
\* is the image of the video at position k.
C4_ScreenshotsAligned ==
    \A c \in Calls :
        Done(c) =>
            /\ Len(ResultScreenshots(c)) = Len(ResultVideos(c))
            /\ \A k \in 1..Len(ResultScreenshots(c)) :
                   ResultScreenshots(c)[k].videoId = ResultVideos(c)[k].videoId

\* C5: a listing without identifiers rejects the call: no fallback pass, no
\* substitute identifiers, no result.
C5_EmptyPlaylistRejects ==
    \A c \in Calls : listedEmpty[c] => pc[c] = "rejected"

\* C6: two calls on one instance never append to the same arrays, and a
\* result holds only the records of its own call.
C6_RunsDoNotInterleave ==
    /\ \A r \in Refs : \A j, k \in 1..Len(vidArr[r]) : vidArr[r][j].by = vidArr[r][k].by
    /\ \A c \in Calls :
           Done(c) => \A k \in 1..Len(ResultVideos(c)) : ResultVideos(c)[k].by = c

\* C7: a call starts the scraping pass at most once, and a call that
\* rejected started it once, returned nothing and starts nothing more.
C7_AtMostOneScrapingPass ==
    \A c \in Calls :
        /\ scrapeStarts[c] <= 1
        /\ pc[c] = "rejected" => (scrapeStarts[c] = 1 /\ result[c] = NoResult)

\* a call fell back to the scraping pass and that pass failed too
C7_Witness == pc[1] = "rejected" /\ fellBack[1] /\ apiRequests[1] > 0

\* C8: the API is on exactly when a key is set; a call made without a key
\* sends no API request, and a call made with a key has sent the listing
\* request before it scrapes.
C8_ApiOnlyWithKey ==
    /\ useApi <=> (apiKey # "")
    /\ \A c \in Calls :
           /\ ~usedApi[c] => apiRequests[c] = 0
           /\ (usedApi[c] /\ scrapeStarts[c] > 0) => apiRequests[c] >= 1

\* a call made with a key has fallen back to scraping after its requests
C8_Witness == usedApi[1] /\ pc[1] \in ScrapePcs /\ apiRequests[1] >= 2

\* C9: for a record list that is not empty generateWordDocument settles
\* with an artifact, whatever the images and the encoder.
C9_AlwaysAnArtifact ==
    (docOp = "generateWordDocument" /\ Len(docIn.videos) > 0) => docOut.kind = "artifact"

\* the encoder is absent, or it is there and throws
EncoderFails ==
    \/ ~docx
    \/ (IF variant = "final" THEN docxLoaded ELSE docx) /\ docIn.encoder # "ok"

\* C10: when the docx encoder is absent or throws, generateWordDocument
\* returns the HTML artifact; stated for calls that supply every image.
C10_DegradesToHtml ==
    ( /\ docOp = "generateWordDocument"
      /\ Len(docIn.videos) > 0
      /\ docIn.given /\ Len(docIn.screenshots) = Len(docIn.videos)
      /\ EncoderFails ) => docOut = HtmlArtifact

\* video.usedFallbackData of a record of a result: neither scrapeVideoDetails
\* (lines 404-425) nor the push of lines 260-268 sets the property, so it
\* reads undefined
usedFallbackData(video) == FALSE

\* C19: every record of a result whose values scrapeVideoDetails took from
\* the demo table carries the usedFallbackData marker.
C19_FabricatedRecordsAreMarked ==
    \A c \in Calls :
        Done(c) =>
            \A k \in 1..Len(ResultVideos(c)) :
                ResultVideos(c)[k].demo => usedFallbackData(ResultVideos(c)[k])

\* C20: when a capture settles without an image, the item's record is still
\* appended and the call goes on to the next item or returns: it does not
\* reject and it does not start the fallback pass.
C20_CaptureFailureIsNotFatal ==
    [][\A c \in Calls :
          (pc[c] \in {"api_capture", "scr_capture"} /\ pc'[c] # pc[c] /\ shotArr' = shotArr) =>
              /\ Len(vidArr'[videos]) = Len(vidArr[videos]) + 1
              /\ pc'[c] \in {"api_details", "scr_details", "done"}
              /\ fellBack'[c] = fellBack[c]
              /\ scrapeStarts'[c] = scrapeStarts[c]]_vars

\* an API run resolved with both records and no image
C20_Witness ==
    /\ Done(1) /\ usedApi[1] /\ ~fellBack[1]
    /\ Len(ResultVideos(1)) = 2 /\ Len(ResultScreenshots(1)) = 0

Returned(name) == fnDone /\ fnName = name

\* the rows a reader must get back from the CSV of a record list
CsvExpected(vs) ==
    <<[k \in 1..6 |-> <<CsvHeader[k]>>]>> \o
    [k \in 1..Len(vs) |->
        <<vs[k].title, vs[k].duration, toString(vs[k].views), toString(vs[k].likes),
          <<WatchUrl, vs[k].videoId>>, toLocaleDateString(vs[k].publishedDate)>>]

\* C14: reading the CSV of generateCSV back gives the header row and one row
\* of six fields per record, in order, equal to the record's values.
C14_CsvLossFree ==
    Returned("generateCSV") => readCsv(fnRet) = CsvExpected(fnArg)

\* C15: parseDurationString(formatDuration(s)) = s for every s >= 0.
C15_DurationRoundTrip ==
    Returned("formatDuration") => parseDurationString(fnRet) = fnArg

\* a duration with hours and padded minutes and seconds was formatted
C15_Witness ==
    /\ Returned("formatDuration")
    /\ fnArg = 3605
    /\ fnRet = <<"1", ":", "0", "0", ":", "0", "5">>

\* the text is PT, then the components in order, then nothing
IsIsoForm(text) ==
    /\ Len(text) >= 2 /\ text[1] = "P" /\ text[2] = "T"
    /\ Group(text, Group(text, Group(text, 3, "H").next, "M").next, "S").next = Len(text) + 1

\* C16: parseDuration gives 3600 H + 60 M + S for a text of the PT#H#M#S
\* form and 0, without throwing, for any other text.
C16_ParseDuration ==
    Returned("parseDuration") =>
        IF IsIsoForm(fnArg)
        THEN LET match == DurationMatch(fnArg)
             IN  fnRet = 3600 * parseIntFrom(match.h, 1, 0) + 60 * parseIntFrom(match.m, 1, 0)
                             + parseIntFrom(match.s, 1, 0)
        ELSE fnRet = 0

\* C17: parseCount returns a non-negative integer for every text, and 0 for
\* a suffix whose mantissa is not a number.
C17_ParseCountTotal ==
    Returned("parseCount") =>
        /\ fnRet >= 0
        /\ LET str == toUpperCase(trim(fnArg))
           IN  (Len(str) > 0 /\ str[Len(str)] \in {"K", "M", "B"}
                    /\ parseFloat(sliceLast(str)).n = NaN) => fnRet = 0

\* a text of digits only, not empty
IsNumber(text) == Len(text) > 0 /\ \A k \in 1..Len(text) : IsDigit(text[k])

\* C18: parseDurationString gives SS for SS, 60 MM + SS for MM:SS,
\* 3600 HH + 60 MM + SS for HH:MM:SS, and 0 for every other shape.
C18_ClockShapes ==
    Returned("parseDurationString") =>
        LET parts == splitColon(fnArg, 1, <<>>)
            n == Len(parts)
            value(k) == parseIntFrom(parts[k], 1, 0)
        IN  IF n <= 3 /\ \A k \in 1..n : IsNumber(parts[k])
            THEN fnRet = CASE n = 1 -> value(1)
                           [] n = 2 -> 60 * value(1) + value(2)
                           [] n = 3 -> 3600 * value(1) + 60 * value(2) + value(3)
            ELSE fnRet = 0

\* C11: generateHtmlDocument returns an artifact for every record list that
\* is not empty, whatever the screenshots argument.
C11_HtmlNeverThrows ==
    (docOp = "generateHtmlDocument" /\ Len(docIn.videos) > 0) => docOut.kind = "artifact"

\* C12: with an empty record list generateExcel and generateWordDocument
\* throw the 'no data' error and return no artifact.
C12_EmptyInputRejected ==
    (docOp \in {"generateExcel", "generateWordDocument"} /\ Len(docIn.videos) = 0) =>
        docOut = NoData

\* C13: when this.xlsx is not set or SheetJS throws, generateExcel returns
\* the CSV artifact of generateCSV.
C13_ExcelDegradesToCsv ==
    ( /\ docOp = "generateExcel"
      /\ Len(docIn.videos) > 0
      /\ (~xlsx \/ docIn.encoder # "ok") ) => docOut = CsvArtifact

\* C21: in every record of a result, duration is formatDuration(durationSeconds).
C21_DurationDerived ==
    \A c \in Calls :
        Done(c) =>
            \A k \in 1..Len(ResultVideos(c)) :
                ResultVideos(c)[k].duration = formatDuration(ResultVideos(c)[k].durationSeconds)

RECURSIVE SumDurations(_)
SumDurations(vs) ==
    IF Len(vs) = 0 THEN 0 ELSE Head(vs).durationSeconds + SumDurations(Tail(vs))

\* C22: the totalDuration of a result is the sum of durationSeconds over the
\* videos of that result, at the return and ever after.
C22_TotalIsSum ==
    \A c \in Calls : Done(c) => result[c].totalDuration = SumDurations(ResultVideos(c))

\* C23: an event that names item i is passed to the callback only when i
\* items have been resolved, and the per-item events of a pass name
\* increasing items.
C23_ItemEventAfterResolution ==
    \A c \in Calls :
        \A k \in 1..Len(events[c]) :
            events[c][k].phase = "item" =>
                /\ events[c][k].item <= events[c][k].processed
                /\ (k > 1 /\ events[c][k - 1].phase = "item") =>
                       events[c][k - 1].item < events[c][k].item

\* C24: listing events lie in 0..10, per-item events are 10 plus the linear
\* share of 80 for the processed count, final events lie in 90..100.
C24_FixedSchedule ==
    \A c \in Calls :
        \A k \in 1..Len(events[c]) :
            LET e == events[c][k]
            IN  CASE e.phase = "listing" -> e.progress \in 0..10
                  [] e.phase = "item"    -> /\ e.progress = 10 + ((e.processed * 80) \div e.total)
                                            /\ e.progress \in 10..90
                  [] e.phase = "final"   -> e.progress \in 90..100

\* C25: the listing the records are made from holds every video of the
\* playlist, however long the playlist is.
C25_EveryVideoListed ==
    Returned("fetchPlaylistItems") => fnRet = fnArg

\* C26: the videoId values of the records of a result are pairwise distinct.
C26_DistinctIds ==
    \A c \in Calls :
        Done(c) =>
            \A j, k \in 1..Len(ResultVideos(c)) :
                j # k => ResultVideos(c)[j].videoId # ResultVideos(c)[k].videoId

\* C27: every image of a result of the scraping pass shows the views and
\* likes stored in the record of its video.
C27_OverlayShowsRecord ==
    \A c \in Calls :
        (Done(c) /\ ~usedApi[c]) =>
            \A k \in 1..Len(ResultScreenshots(c)) :
                \E j \in 1..Len(ResultVideos(c)) :
                    /\ ResultVideos(c)[j].videoId = ResultScreenshots(c)[k].videoId
                    /\ ResultVideos(c)[j].views = ResultScreenshots(c)[k].views
                    /\ ResultVideos(c)[j].likes = ResultScreenshots(c)[k].likes

\* C28: of two calls made one after the other, the second leaves the arrays
\* the first returned as they are, and returns other arrays that hold only
\* what it pushed itself and a total that is the sum over its own records.
C28_SecondCallStartsAfresh ==
    [][Done(1) =>
          /\ vidArr'[result[1].videos] = vidArr[result[1].videos]
          /\ shotArr'[result[1].screenshots] = shotArr[result[1].screenshots]
          /\ Done(2)' =>
                 /\ result'[2].videos # result[1].videos
                 /\ result'[2].screenshots # result[1].screenshots
                 /\ \A k \in 1..Len(ResultVideos(2)') : ResultVideos(2)'[k].by = 2
                 /\ Len(ResultScreenshots(2)') <= Len(ResultVideos(2)')
                 /\ result'[2].totalDuration = SumDurations(ResultVideos(2)')]_vars

\* both calls resolved, each with records
C28_Witness ==
    /\ Done(1) /\ Done(2)
    /\ Len(ResultVideos(1)) > 0 /\ Len(ResultVideos(2)) > 0
    /\ Len(ResultScreenshots(1)) > 0

Settled(c) == pc[c] \in {"done", "rejected"}

\* C30: a call that started settles; a resolved call has passed the event
\* 100 last; the loop index of a pass goes up one by one (the scraping pass
\* of a fallback starts again at 0); and a settled call emits no event and
\* stays settled.
C30_EveryCallSettles ==
    /\ (pc[1] # "idle") ~> Settled(1)
    /\ [](Done(1) => events[1][Len(events[1])].progress = 100)
    /\ [][/\ idx'[1] # idx[1] => (idx'[1] = idx[1] + 1 \/ (pc[1] = "scr_load" /\ idx'[1] = 0))
          /\ Settled(1) => (events'[1] = events[1] /\ pc'[1] = pc[1])]_vars

\* a call that fell back to the scraping pass has resolved
C30_Witness ==
    /\ Done(1) /\ fellBack[1] /\ usedApi[1]
    /\ events[1][Len(events[1])].progress = 100

====
